---- MODULE Spec2Model ----
(***************************************************************************)
(* Model of the price-comparison application of src/main.py: the two       *)
(* storefront scrapers (EcommerceScraper), the search screen               *)
(* (SearchScreen.search_products, _search_thread, _update_results), the    *)
(* Kivy clock that carries results from a background thread to the UI      *)
(* thread, and the SQLite store (DatabaseManager).                         *)
(*                                                                         *)
(* Texts are tuples of one-character strings.  A price or a rating is an   *)
(* integer number of hundredths (9.99 is 999).  An optional value (an      *)
(* element that find() may not find, an Optional field) is a tuple of      *)
(* length 0 or 1.                                                          *)
(***************************************************************************)
EXTENDS Integers, Sequences, FiniteSets, TLC

\* ------------------------------------------------------------------ bounds
\* Number of searches (background threads) a behaviour may start.
MaxSearches == 1
\* Number of result containers the storefronts serve in one behaviour, all
\* fetched pages together.
MaxContainers == 2
\* Number of searches that may run at the same time (specification
\* SpecConcurrent).
MaxConcurrentSearches == 2
\* Number of searches behind the history screen (specification SpecHistory).
MaxHistorySearches == 3
\* Last second the wall clock reaches (specification SpecHistory).
MaxTime == 1
\* Number of result containers of the pages one search fetches (specification
\* SpecScrape).
MaxScrapeContainers == 4

Max(a, b) == IF a > b THEN a ELSE b
MaxThreads == Max(MaxSearches, Max(MaxConcurrentSearches, MaxHistorySearches))

\* ------------------------------------------------------------ pure helpers
None == <<>>
Some(x) == <<x>>

Digits == {"0", "1", "2", "3", "4", "5", "6", "7", "8", "9"}
Whitespace == {" "}

DigitVal(c) ==
    CASE c = "0" -> 0 [] c = "1" -> 1 [] c = "2" -> 2 [] c = "3" -> 3
      [] c = "4" -> 4 [] c = "5" -> 5 [] c = "6" -> 6 [] c = "7" -> 7
      [] c = "8" -> 8 [] c = "9" -> 9

\* str.strip(): drop leading and trailing whitespace.
RECURSIVE LStrip(_)
LStrip(s) ==
    IF s # <<>> /\ Head(s) \in Whitespace THEN LStrip(Tail(s)) ELSE s

RECURSIVE RStrip(_)
RStrip(s) ==
    IF s # <<>> /\ s[Len(s)] \in Whitespace
    THEN RStrip(SubSeq(s, 1, Len(s) - 1))
    ELSE s

Strip(s) == RStrip(LStrip(s))

\* str.replace(',', '')
RemoveCommas(s) == SelectSeq(s, LAMBDA c : c # ",")

\* Index of the first digit of s at or after i, 0 when there is none.
RECURSIVE FirstDigit(_, _)
FirstDigit(s, i) ==
    IF i > Len(s) THEN 0
    ELSE IF s[i] \in Digits THEN i
    ELSE FirstDigit(s, i + 1)

\* Index just past the run of digits of s that starts at i.
RECURSIVE DigitsEnd(_, _)
DigitsEnd(s, i) ==
    IF i <= Len(s) /\ s[i] \in Digits THEN DigitsEnd(s, i + 1) ELSE i

\* Value of the digits s[i..j-1] read as a decimal integer.
RECURSIVE IntOf(_, _, _)
IntOf(s, i, j) ==
    IF i >= j THEN 0 ELSE IntOf(s, i, j - 1) * 10 + DigitVal(s[j - 1])

\* float() of a match "<digits>[.<digits>]" of s starting at i, in hundredths.
\* Digits beyond the second decimal place are below the model's resolution.
NumberAt(s, i) ==
    LET e  == DigitsEnd(s, i)
        fs == IF e <= Len(s) /\ s[e] = "." THEN e + 1 ELSE e
        fe == DigitsEnd(s, fs)
        d1 == IF fs < fe THEN DigitVal(s[fs]) ELSE 0
        d2 == IF fs + 1 < fe THEN DigitVal(s[fs + 1]) ELSE 0
    IN  IntOf(s, i, e) * 100 + d1 * 10 + d2

\* EcommerceScraper.extract_price
extract_price(price_text) ==
    IF price_text = <<>> THEN 0
    ELSE LET t == RemoveCommas(price_text)
             i == FirstDigit(t, 1)
         IN  IF i # 0 THEN NumberAt(t, i) ELSE 0

\* The rating of scrape_amazon: re.search(r'(\d+\.?\d*)', rating_text)
parse_rating(rating_text) ==
    LET i == FirstDigit(rating_text, 1)
    IN  IF i # 0 THEN Some(NumberAt(rating_text, i)) ELSE None

\* urllib.parse.urljoin(base, href) for the hrefs of the model: an href is a
\* tuple of parts, <<>> for '', <<path>> for a relative link and
\* <<origin, path>> for an absolute one.
urljoin(base, href) ==
    IF Len(href) = 2 THEN href
    ELSE IF Len(href) = 1 THEN <<base, href[1]>>
    ELSE <<base>>

AmazonBase == "https://www.amazon.com"

\* The slice [:3] of both scrapers.
ContainerLimit == 3

Min(a, b) == IF a < b THEN a ELSE b

Range(seq) == {seq[i] : i \in DOMAIN seq}

\* Product (dataclass)
Product(name, price, url, store, availability, image_url, rating) ==
    [name |-> name, price |-> price, url |-> url, store |-> store,
     availability |-> availability, image_url |-> image_url, rating |-> rating]

\* ------------------------------------------------------------- the scrapers
\* A result container of a page is a record of what find() gives in it:
\*   name_elem, price_elem, rating_elem : None or Some(text)
\*   link_elem : None or Some(href)      img_elem : None or Some(src),
\* src itself None when the img tag has no src attribute.
\* A response is [exception, status_code, containers]: exception is what
\* session.get raised ("none" when it returned), containers is what find_all
\* finds in the body.

Skip == [kind |-> "skip", product |-> None]
ParseError == [kind |-> "error", product |-> None]
Parsed(p) == [kind |-> "product", product |-> Some(p)]

\* Body of the for loop of scrape_amazon, for one container.
ParseAmazonContainer(container) ==
    IF container.name_elem = None THEN Skip
    ELSE IF container.price_elem = None THEN Skip
    ELSE IF container.link_elem = None THEN ParseError
    ELSE Parsed(Product(
            Strip(container.name_elem[1]),
            extract_price(Strip(container.price_elem[1])),
            urljoin(AmazonBase, container.link_elem[1]),
            "Amazon",
            "In Stock",
            IF container.img_elem = None THEN None ELSE container.img_elem[1],
            IF container.rating_elem = None THEN None
            ELSE parse_rating(container.rating_elem[1])))

\* Body of the for loop of scrape_ebay, for one container.
ParseEbayContainer(container) ==
    IF container.name_elem = None THEN Skip
    ELSE IF container.price_elem = None THEN Skip
    ELSE Parsed(Product(
            Strip(container.name_elem[1]),
            extract_price(Strip(container.price_elem[1])),
            IF container.link_elem = None THEN <<>> ELSE container.link_elem[1],
            "eBay",
            "Available",
            IF container.img_elem = None THEN None ELSE container.img_elem[1],
            None))

\* The products of a sequence of per-container outcomes, in order.
RECURSIVE Collect(_)
Collect(outs) ==
    IF outs = <<>> THEN <<>>
    ELSE Head(outs).product \o Collect(Tail(outs))

\* What a scraper hands back: the list it returns, whether an exception left
\* it instead, and the messages it logged.
ScrapeResult(products, raised, messages) ==
    [products |-> products, raised |-> raised, log |-> messages]

\* scrape_amazon without its outer try/except: a failed session.get leaves
\* the function as an exception.
scrape_amazon_unguarded(response) ==
    IF response.exception # "none"
    THEN ScrapeResult(<<>>, TRUE, {})
    ELSE IF response.status_code = 200
    THEN LET n    == Min(ContainerLimit, Len(response.containers))
             outs == [i \in 1..n |-> ParseAmazonContainer(response.containers[i])]
         IN  ScrapeResult(Collect(outs), FALSE, {})
    ELSE ScrapeResult(<<>>, FALSE, {})

\* EcommerceScraper.scrape_amazon, given the response to its request.
scrape_amazon(response) ==
    IF response.exception # "none"
    THEN ScrapeResult(<<>>, FALSE, {"Error scraping Amazon"})
    ELSE IF response.status_code = 200
    THEN LET n    == Min(ContainerLimit, Len(response.containers))
             outs == [i \in 1..n |-> ParseAmazonContainer(response.containers[i])]
         IN  ScrapeResult(Collect(outs), FALSE,
                 IF \E i \in 1..n : outs[i].kind = "error"
                 THEN {"Error parsing Amazon product"} ELSE {})
    ELSE ScrapeResult(<<>>, FALSE, {})

\* scrape_ebay without the slice [:3]: every container of the page is parsed.
scrape_ebay_unlimited(response) ==
    IF response.exception # "none"
    THEN ScrapeResult(<<>>, FALSE, {"Error scraping eBay"})
    ELSE IF response.status_code = 200
    THEN LET n    == Len(response.containers)
             outs == [i \in 1..n |-> ParseEbayContainer(response.containers[i])]
         IN  ScrapeResult(Collect(outs), FALSE,
                 IF \E i \in 1..n : outs[i].kind = "error"
                 THEN {"Error parsing eBay product"} ELSE {})
    ELSE ScrapeResult(<<>>, FALSE, {})

\* EcommerceScraper.scrape_ebay, given the response to its request.
scrape_ebay(response) ==
    IF response.exception # "none"
    THEN ScrapeResult(<<>>, FALSE, {"Error scraping eBay"})
    ELSE IF response.status_code = 200
    THEN LET n    == Min(ContainerLimit, Len(response.containers))
             outs == [i \in 1..n |-> ParseEbayContainer(response.containers[i])]
         IN  ScrapeResult(Collect(outs), FALSE,
                 IF \E i \in 1..n : outs[i].kind = "error"
                 THEN {"Error parsing eBay product"} ELSE {})
    ELSE ScrapeResult(<<>>, FALSE, {})

\* ------------------------------------------------------------------ ranking
\* sorted(valid_products, key=lambda p: p.price): a stable sort, here by
\* insertion after every element whose key is not greater.
\* Insert placing an element before its equals: a sort that is not stable.
RECURSIVE InsertBeforeEqual(_, _)
InsertBeforeEqual(sorted, p) ==
    IF sorted = <<>> THEN <<p>>
    ELSE IF Head(sorted).price < p.price
    THEN <<Head(sorted)>> \o InsertBeforeEqual(Tail(sorted), p)
    ELSE <<p>> \o sorted

RECURSIVE Insert(_, _)
Insert(sorted, p) ==
    IF sorted = <<>> THEN <<p>>
    ELSE IF Head(sorted).price <= p.price
    THEN <<Head(sorted)>> \o Insert(Tail(sorted), p)
    ELSE <<p>> \o sorted

RECURSIVE SortedByPrice(_)
SortedByPrice(products) ==
    IF products = <<>> THEN <<>>
    ELSE Insert(SortedByPrice(SubSeq(products, 1, Len(products) - 1)),
                products[Len(products)])

\* valid_products with the filter p.price >= 0.
ValidProductsNonNegative(products) == SelectSeq(products, LAMBDA p : p.price >= 0)

\* valid_products of _update_results
ValidProducts(products) == SelectSeq(products, LAMBDA p : p.price > 0)

\* ------------------------------------------------------------------ widgets
\* A widget of results_layout.  A Label shows a text; the best-deal header
\* also renders the store and the price of the product it announces.
Label(text) ==
    [kind |-> "Label", text |-> text, store |-> "", price |-> 0, product |-> None]

BestDealHeader(best_deal) ==
    [kind |-> "Label", text |-> "Best Deal", store |-> best_deal.store,
     price |-> best_deal.price, product |-> None]

ProductCard(product) ==
    [kind |-> "ProductCard", text |-> "", store |-> "", price |-> 0,
     product |-> Some(product)]

ErrorPopup == Some([title |-> "Error", message |-> "Please enter a product name"])

\* ----------------------------------------------------------------- database
\* The wall clock that CURRENT_TIMESTAMP reads, in whole seconds.
VARIABLE now

\* DatabaseManager.save_product: one row of table products; the id is the
\* AUTOINCREMENT key, and rows are never deleted.
save_product(database, product_name, search_query) ==
    LET product_id == Len(database.products) + 1
    IN  [db |-> [database EXCEPT !.products =
                    Append(@, [id |-> product_id, name |-> product_name,
                               search_query |-> search_query,
                               created_at |-> now])],
         product_id |-> product_id]

\* save_price_data handed only the ranked (priced) products.
save_price_data_valid_only(database, product_id, products) ==
    LET valid == SelectSeq(products, LAMBDA p : p.price > 0)
        base  == Len(database.price_history)
        rows  == [i \in 1..Len(valid) |->
                    [id |-> base + i, product_id |-> product_id,
                     store |-> valid[i].store, price |-> valid[i].price,
                     url |-> valid[i].url,
                     availability |-> valid[i].availability,
                     rating |-> valid[i].rating, timestamp |-> now]]
    IN  [database EXCEPT !.price_history = @ \o rows]

\* DatabaseManager.save_price_data: one row of table price_history per product.
save_price_data(database, product_id, products) ==
    LET base == Len(database.price_history)
        rows == [i \in 1..Len(products) |->
                    [id |-> base + i, product_id |-> product_id,
                     store |-> products[i].store, price |-> products[i].price,
                     url |-> products[i].url,
                     availability |-> products[i].availability,
                     rating |-> products[i].rating, timestamp |-> now]]
    IN  [database EXCEPT !.price_history = @ \o rows]

\* What the storage can do to one persistence step: accept both writes, or
\* raise (sqlite3.Error) in save_product or in save_price_data.  A write that
\* raises commits nothing; save_product has committed by the time
\* save_price_data runs.
DbFaults == {"none", "save_product", "save_price_data"}

\* best_deal taken from the wrong end of the list.
BestDealLast(sorted_products) == sorted_products[Len(sorted_products)]

\* best_deal = sorted_products[0]
BestDeal(sorted_products) == sorted_products[1]

\* The try block with "except: pass": a failure is swallowed without a log.
SaveToDatabaseSilent(database, products, product_name, fault) ==
    IF fault = "save_product"
    THEN [db |-> database, log |-> {}]
    ELSE LET saved == save_product(database, product_name, product_name)
         IN  IF fault = "save_price_data"
             THEN [db |-> saved.db, log |-> {}]
             ELSE [db |-> save_price_data(saved.db, saved.product_id, products),
                   log |-> {}]

\* The try block "Save to database" of _update_results.
SaveToDatabase(database, products, product_name, fault) ==
    IF fault = "save_product"
    THEN [db |-> database, log |-> {"Database error"}]
    ELSE LET saved == save_product(database, product_name, product_name)
         IN  IF fault = "save_price_data"
             THEN [db |-> saved.db, log |-> {"Database error"}]
             ELSE [db |-> save_price_data(saved.db, saved.product_id, products),
                   log |-> {}]

\* SearchScreen._update_results: the widgets it leaves in results_layout, the
\* database and the messages logged.
update_results(database, products, product_name, fault) ==
    IF products = <<>>
    THEN [layout |-> <<Label("No products found")>>, db |-> database, log |-> {}]
    ELSE LET valid_products  == ValidProducts(products)
             sorted_products == SortedByPrice(valid_products)
             header == IF sorted_products # <<>>
                       THEN <<BestDealHeader(BestDeal(sorted_products))>>
                       ELSE <<>>
             cards  == [i \in 1..Len(sorted_products) |->
                            ProductCard(sorted_products[i])]
             saved  == SaveToDatabase(database, products, product_name, fault)
         IN  [layout |-> header \o cards, db |-> saved.db, log |-> saved.log]

\* all_products of _search_thread: Amazon's products, then eBay's.
AllProducts(amazon_products, ebay_products) == amazon_products \o ebay_products

\* -------------------------------------------------------------------- inputs
\* Texts the user may type into search_input.
Queries == { <<" ">>, <<" ", "a">> }

\* Result containers a storefront page may hold: an unpriced listing, a cheap
\* one and a dear one.
Container(name, price_text) ==
    [name_elem |-> Some(name), price_elem |-> Some(price_text),
     link_elem |-> Some(<<"/item">>), img_elem |-> None, rating_elem |-> None]

Containers ==
    { Container(<<"U">>, <<"F", "r", "e", "e">>),
      Container(<<"C">>, <<"$", "5">>),
      Container(<<"E">>, <<"5", ".", "0", "0">>),
      Container(<<"D">>, <<"9", ".", "9", "9">>) }

RECURSIVE SeqsUpTo(_, _)
SeqsUpTo(S, n) ==
    IF n = 0 THEN { <<>> }
    ELSE LET shorter == SeqsUpTo(S, n - 1)
         IN  shorter \cup { Append(q, x) : q \in shorter, x \in S }

Pages == SeqsUpTo(Containers, MaxContainers)

\* What session.get can come back with: a connection error, a timeout, a
\* response that is not 200, or a 200 whose body holds some containers (none
\* at all when the markup does not match).
Responses ==
    { [exception |-> e, status_code |-> 0, containers |-> <<>>] :
        e \in {"ConnectionError", "Timeout"} }
    \cup { [exception |-> "none", status_code |-> 503, containers |-> <<>>] }
    \cup { [exception |-> "none", status_code |-> 200, containers |-> page] :
            page \in Pages }

\* --------------------------------------------------------------------- state
VARIABLES
    search_input,     \* SearchScreen.search_input.text
    results_layout,   \* the widgets of SearchScreen.results_layout, in order
    progress_opacity, \* SearchScreen.progress_bar.opacity
    popup,            \* the open Popup, None when there is none
    pc,               \* pc[t]: where background thread t is in _search_thread
    product_name,     \* product_name[t]: the argument of thread t
    all_products,     \* all_products[t]: the local list of thread t
    net,              \* net[t]: the HTTP exchange thread t is blocked in
    clock,            \* callbacks scheduled with Clock.schedule_once, in order
    db,               \* tables products and price_history of the database
    log,              \* messages logged so far
    served,           \* number of containers the storefronts have served
    history_layout    \* the rows of HistoryScreen.history_layout, in order

vars == <<search_input, results_layout, progress_opacity, popup, pc,
          product_name, all_products, net, clock, db, log, served, now,
          history_layout>>

\* Background threads: as many as the largest number of searches a
\* specification lets a behaviour start.
Threads == 1..MaxThreads

\* A request in flight (response None) or answered (response Some(r)).
Exchange(store, query, response) ==
    [store |-> store, query |-> query, response |-> response]

UpdateCallback(products, name) ==
    [fn |-> "_update_results", products |-> products, product_name |-> name]

ErrorCallback ==
    [fn |-> "_show_error", products |-> <<>>, product_name |-> <<>>]

Init ==
    /\ search_input = <<>>
    /\ results_layout = <<>>
    /\ progress_opacity = 0
    /\ popup = None
    /\ pc = [t \in Threads |-> "unborn"]
    /\ product_name = [t \in Threads |-> <<>>]
    /\ all_products = [t \in Threads |-> <<>>]
    /\ net = [t \in Threads |-> None]
    /\ clock = <<>>
    /\ db = [products |-> <<>>, price_history |-> <<>>]
    /\ log = {}
    /\ served = 0
    /\ now = 0
    /\ history_layout = <<>>

\* ------------------------------------------------------------ user actions
\* The user edits the text of search_input (no popup is in the way).
TypeText(text) ==
    /\ popup = None
    /\ search_input # text
    /\ search_input' = text
    /\ UNCHANGED <<results_layout, progress_opacity, popup, pc, product_name,
                   all_products, net, clock, db, log, served, now,
                   history_layout>>

\* The user closes the popup.
DismissPopup ==
    /\ popup # None
    /\ popup' = None
    /\ UNCHANGED <<search_input, results_layout, progress_opacity, pc,
                   product_name, all_products, net, clock, db, log, served, now,
                   history_layout>>

\* The blank check placed after the widgets were cleared.
RejectBlankAfterClear ==
    /\ Strip(search_input) = <<>>
    /\ popup' = ErrorPopup
    /\ progress_opacity' = 1
    /\ results_layout' = <<>>
    /\ UNCHANGED <<search_input, pc, product_name, all_products, net, clock,
                   db, log, served, now,
                   history_layout>>

\* SearchScreen.search_products with a blank text: the popup, and return.
RejectBlank ==
    /\ Strip(search_input) = <<>>
    /\ popup' = ErrorPopup
    /\ UNCHANGED <<search_input, results_layout, progress_opacity, pc,
                   product_name, all_products, net, clock, db, log, served, now,
                   history_layout>>

\* SearchScreen.search_products otherwise: the loading label, and a new
\* background thread t on _search_thread(product_name).
StartSearch(t) ==
    /\ Strip(search_input) # <<>>
    /\ pc[t] = "unborn"
    /\ \A u \in Threads : u < t => pc[u] # "unborn"
    /\ progress_opacity' = 1
    /\ results_layout' = <<Label("Searching products...")>>
    /\ pc' = [pc EXCEPT ![t] = "started"]
    /\ product_name' = [product_name EXCEPT ![t] = Strip(search_input)]
    /\ UNCHANGED <<search_input, popup, all_products, net, clock, db, log, served, now,
                   history_layout>>

\* SearchScreen.search_products, bound to the Search button, where at most
\* limit searches are started in a behaviour.
SearchProducts(limit) ==
    /\ popup = None
    /\ \/ RejectBlank
       \/ \E t \in 1..limit : StartSearch(t)

search_products == SearchProducts(MaxSearches)

\* ------------------------------------------------------- background thread
\* scrape_amazon sends its request: session.get blocks the thread.
AmazonRequest(t) ==
    /\ pc[t] = "started"
    /\ pc' = [pc EXCEPT ![t] = "amazon"]
    /\ net' = [net EXCEPT ![t] = Some(Exchange("Amazon", product_name[t], None))]
    /\ UNCHANGED <<search_input, results_layout, progress_opacity, popup,
                   product_name, all_products, clock, db, log, served, now,
                   history_layout>>

\* The network answers the request thread t is blocked in, where the
\* storefronts serve at most budget containers in a behaviour.
RespondWithin(t, response, budget) ==
    /\ net[t] # None
    /\ net[t][1].response = None
    /\ served + Len(response.containers) <= budget
    /\ served' = served + Len(response.containers)
    /\ net' = [net EXCEPT ![t] = Some([net[t][1] EXCEPT !.response = Some(response)])]
    /\ UNCHANGED <<search_input, results_layout, progress_opacity, popup, pc,
                   product_name, all_products, clock, db, log, now,
                   history_layout>>

Respond(t, response) == RespondWithin(t, response, MaxContainers)

\* except Exception of _search_thread: the error callback is scheduled.
SearchFailed(t) ==
    /\ pc' = [pc EXCEPT ![t] = "finished"]
    /\ product_name' = [product_name EXCEPT ![t] = <<>>]
    /\ all_products' = [all_products EXCEPT ![t] = <<>>]
    /\ net' = [net EXCEPT ![t] = None]
    /\ clock' = Append(clock, ErrorCallback)

\* _search_thread delivering Amazon's products as soon as they are in, while
\* scrape_ebay is still to run.
AmazonReturnDelivers(t) ==
    /\ pc[t] = "amazon"
    /\ net[t] # None
    /\ net[t][1].response # None
    /\ LET result == scrape_amazon(net[t][1].response[1])
       IN  /\ log' = log \cup result.log
           /\ pc' = [pc EXCEPT ![t] = "ebay"]
           /\ all_products' = [all_products EXCEPT ![t] =
                                  AllProducts(result.products, <<>>)]
           /\ net' = [net EXCEPT ![t] =
                         Some(Exchange("eBay", product_name[t], None))]
           /\ clock' = Append(clock,
                          UpdateCallback(result.products, product_name[t]))
           /\ UNCHANGED product_name
    /\ UNCHANGED <<search_input, results_layout, progress_opacity, popup, db, served, now,
                   history_layout>>

\* scrape_amazon returns; all_products.extend(amazon_products); scrape_ebay
\* sends its request.
AmazonReturn(t) ==
    /\ pc[t] = "amazon"
    /\ net[t] # None
    /\ net[t][1].response # None
    /\ LET result == scrape_amazon(net[t][1].response[1])
       IN  /\ log' = log \cup result.log
           /\ IF result.raised
              THEN SearchFailed(t)
              ELSE /\ pc' = [pc EXCEPT ![t] = "ebay"]
                   /\ all_products' = [all_products EXCEPT ![t] =
                                          AllProducts(result.products, <<>>)]
                   /\ net' = [net EXCEPT ![t] =
                                 Some(Exchange("eBay", product_name[t], None))]
                   /\ UNCHANGED <<product_name, clock>>
    /\ UNCHANGED <<search_input, results_layout, progress_opacity, popup, db, served, now,
                   history_layout>>

\* _search_thread scheduling the update under the text search_input holds
\* when the scrapers are done, not under the product_name it was started with.
EbayReturnReadsInput(t) ==
    /\ pc[t] = "ebay"
    /\ net[t] # None
    /\ net[t][1].response # None
    /\ LET result == scrape_ebay(net[t][1].response[1])
       IN  /\ log' = log \cup result.log
           /\ pc' = [pc EXCEPT ![t] = "finished"]
           /\ clock' = Append(clock,
                          UpdateCallback(
                              AllProducts(all_products[t], result.products),
                              Strip(search_input)))
           /\ product_name' = [product_name EXCEPT ![t] = <<>>]
           /\ all_products' = [all_products EXCEPT ![t] = <<>>]
           /\ net' = [net EXCEPT ![t] = None]
    /\ UNCHANGED <<search_input, results_layout, progress_opacity, popup, db,
                   served, now, history_layout>>

\* scrape_ebay returns; all_products.extend(ebay_products); the UI update is
\* scheduled and the thread ends.
EbayReturn(t) ==
    /\ pc[t] = "ebay"
    /\ net[t] # None
    /\ net[t][1].response # None
    /\ LET result == scrape_ebay(net[t][1].response[1])
       IN  /\ log' = log \cup result.log
           /\ IF result.raised
              THEN SearchFailed(t)
              ELSE /\ pc' = [pc EXCEPT ![t] = "finished"]
                   /\ clock' = Append(clock,
                                  UpdateCallback(
                                      AllProducts(all_products[t], result.products),
                                      product_name[t]))
                   /\ product_name' = [product_name EXCEPT ![t] = <<>>]
                   /\ all_products' = [all_products EXCEPT ![t] = <<>>]
                   /\ net' = [net EXCEPT ![t] = None]
    /\ UNCHANGED <<search_input, results_layout, progress_opacity, popup, db, served, now,
                   history_layout>>

\* ----------------------------------------------------------------- UI thread
\* The Kivy clock runs the oldest scheduled callback on the UI thread:
\* _update_results(all_products, product_name) or _show_error(message).
ClockTick(fault) ==
    /\ clock # <<>>
    /\ clock' = Tail(clock)
    /\ progress_opacity' = 0
    /\ LET cb == Head(clock)
       IN  IF cb.fn = "_update_results"
           THEN LET out == update_results(db, cb.products, cb.product_name, fault)
                IN  /\ results_layout' = out.layout
                    /\ db' = out.db
                    /\ log' = log \cup out.log
           ELSE /\ results_layout' = <<Label("Search failed. Please try again.")>>
                /\ UNCHANGED <<db, log>>
    /\ UNCHANGED <<search_input, popup, pc, product_name, all_products, net, served, now,
                   history_layout>>

Next ==
    \/ \E text \in Queries : TypeText(text)
    \/ DismissPopup
    \/ search_products
    \/ \E t \in Threads : AmazonRequest(t)
    \/ \E t \in Threads, response \in Responses : Respond(t, response)
    \/ \E t \in Threads : AmazonReturn(t)
    \/ \E t \in Threads : EbayReturn(t)
    \/ \E fault \in DbFaults : ClockTick(fault)

Spec == Init /\ [][Next]_vars

\* ---------------------------------------------------------- history screen
\* LIMIT 50 of the query of HistoryScreen.load_history.
HistoryLimit == 50

\* Longest product name a history item shows in full.
HistoryNameLength == 40

\* One second passes on the wall clock CURRENT_TIMESTAMP reads.
Tick ==
    /\ now < MaxTime
    /\ now' = now + 1
    /\ UNCHANGED <<search_input, results_layout, progress_opacity, popup, pc,
                   product_name, all_products, net, clock, db, log, served,
                   history_layout>>

\* products p JOIN price_history ph ON p.id = ph.product_id: the positions of
\* the price_history rows that have their products row.
Joined(database) ==
    { i \in DOMAIN database.price_history :
        \E j \in DOMAIN database.products :
            database.products[j].id = database.price_history[i].product_id }

\* SELECT p.name, ph.store, ph.price, ph.timestamp of one joined row.
Selected(database, i) ==
    LET ph == database.price_history[i]
        p  == CHOOSE row \in Range(database.products) : row.id = ph.product_id
    IN  [name |-> p.name, store |-> ph.store, price |-> ph.price,
         timestamp |-> ph.timestamp]

\* ORDER BY ph.timestamp DESC: every order of the joined rows in which no
\* timestamp precedes a later one. The query names no second sort key, so
\* rows of one second come in any order.
OrderByTimestampDesc(database) ==
    LET rows == Joined(database)
        n    == Cardinality(rows)
    IN  { order \in [1..n -> rows] :
            /\ \A a, b \in 1..n : a # b => order[a] # order[b]
            /\ \A a, b \in 1..n : a < b =>
                   database.price_history[order[a]].timestamp
                       >= database.price_history[order[b]].timestamp }

\* cursor.fetchall() for one such order, cut by LIMIT 50.
FetchAll(database, order) ==
    [k \in 1..Min(HistoryLimit, Len(order)) |-> Selected(database, order[k])]

\* The box load_history builds for one fetched row: the name, cut after 40
\* characters, over the line of store, price and timestamp.
HistoryItem(row) ==
    [kind |-> "HistoryItem",
     text |-> IF Len(row.name) > HistoryNameLength
              THEN SubSeq(row.name, 1, HistoryNameLength) \o <<".", ".", ".">>
              ELSE row.name,
     store |-> row.store, price |-> row.price, timestamp |-> row.timestamp]

HistoryLabel(text) ==
    [kind |-> "Label", text |-> text, store |-> "", price |-> 0, timestamp |-> 0]

\* What may go wrong in load_history: nothing, or sqlite3 raising.
HistoryFaults == {"none", "sqlite3"}

\* HistoryScreen.load_history, run by on_enter and by the Refresh button.
LoadHistory(fault) ==
    /\ IF fault # "none"
       THEN /\ history_layout' = <<HistoryLabel("Error loading history")>>
            /\ log' = log \cup {"History error"}
       ELSE /\ \E order \in OrderByTimestampDesc(db) :
                LET results == FetchAll(db, order)
                IN  history_layout' =
                        IF results = <<>>
                        THEN <<HistoryLabel("No search history found")>>
                        ELSE [k \in DOMAIN results |-> HistoryItem(results[k])]
            /\ UNCHANGED log
    /\ UNCHANGED <<search_input, results_layout, progress_opacity, popup, pc,
                   product_name, all_products, net, clock, db, served, now>>

\* A storefront of the history runs: out of order, or a page of one listing.
HistoryResponses ==
    { [exception |-> "none", status_code |-> 503, containers |-> <<>>],
      [exception |-> "none", status_code |-> 200,
       containers |-> <<Container(<<"C">>, <<"$", "5">>)>>] }

\* Searches, the passing of time and visits of the history screen.
NextHistory ==
    \/ TypeText(<<"a">>)
    \/ DismissPopup
    \/ SearchProducts(MaxHistorySearches)
    \/ \E t \in Threads : AmazonRequest(t)
    \/ \E t \in Threads, response \in HistoryResponses :
            RespondWithin(t, response, 2 * MaxHistorySearches)
    \/ \E t \in Threads : AmazonReturn(t)
    \/ \E t \in Threads : EbayReturn(t)
    \/ ClockTick("none")
    \/ Tick
    \/ \E fault \in HistoryFaults : LoadHistory(fault)

SpecHistory == Init /\ [][NextHistory]_vars

\* ------------------------------------------------------- storefront markup
\* The listing titles of a page, by position on the page.
PositionNames == <<"1", "2", "3", "4", "5", "6", "7", "8", "9">>

EbayOrigin == "https://www.ebay.com"

\* What the markup of a result container may look like: complete with a
\* relative or an absolute href, a link without href, no link, no title
\* element, no price element.
Markups == {"relative", "absolute", "nohref", "nolink", "noname", "noprice"}

\* The result container of a markup at a position of its page.
ScrapeContainer(markup, position) ==
    [name_elem   |-> IF markup = "noname" THEN None
                     ELSE Some(<<PositionNames[position]>>),
     price_elem  |-> IF markup = "noprice" THEN None ELSE Some(<<"$", "5">>),
     link_elem   |-> CASE markup = "nolink"   -> None
                       [] markup = "nohref"   -> Some(<<>>)
                       [] markup = "absolute" -> Some(<<EbayOrigin, "/itm">>)
                       [] OTHER               -> Some(<<"/item">>),
     img_elem    |-> None,
     rating_elem |-> None]

\* The pages of up to n result containers.
RECURSIVE ScrapePages(_)
ScrapePages(n) ==
    IF n = 0 THEN { <<>> }
    ELSE LET shorter == ScrapePages(n - 1)
         IN  shorter \cup { Append(page, ScrapeContainer(markup, Len(page) + 1)) :
                              page \in shorter, markup \in Markups }

ScrapeResponses ==
    { [exception |-> "none", status_code |-> 200, containers |-> page] :
        page \in ScrapePages(MaxScrapeContainers) }

\* A storefront answers the request of thread t with one of these pages.
ScrapeRespond(t) ==
    /\ net[t] # None
    /\ net[t][1].response = None
    /\ \E response \in ScrapeResponses :
            RespondWithin(t, response, MaxScrapeContainers)

\* One search over storefront pages of every markup.
NextScrape ==
    \/ TypeText(<<"a">>)
    \/ DismissPopup
    \/ SearchProducts(1)
    \/ \E t \in Threads : AmazonRequest(t)
    \/ \E t \in Threads : ScrapeRespond(t)
    \/ \E t \in Threads : AmazonReturn(t)
    \/ \E t \in Threads : EbayReturn(t)
    \/ ClockTick("none")

SpecScrape == Init /\ [][NextScrape]_vars

\* ------------------------------------------------------ concurrent searches
\* Texts typed for searches that run side by side.
ConcurrentQueries == { <<"a">>, <<"b">> }

\* The listing a storefront finds for a query: its link names the query.
ListingOf(query) ==
    [name_elem |-> Some(query), price_elem |-> Some(<<"$", "5">>),
     link_elem |-> Some(<<query>>), img_elem |-> None, rating_elem |-> None]

\* What a storefront answers to the request for a query: out of order, or a
\* page with the listing of the query.
ResponsesFor(query) ==
    { [exception |-> "none", status_code |-> 503, containers |-> <<>>],
      [exception |-> "none", status_code |-> 200,
       containers |-> <<ListingOf(query)>>] }

\* A storefront answers the request of thread t for the query of the request.
ConcurrentRespond(t) ==
    /\ net[t] # None
    /\ \E response \in ResponsesFor(net[t][1].query) :
            RespondWithin(t, response, 2 * MaxConcurrentSearches)

\* Searches started while earlier ones are still running.
NextConcurrent ==
    \/ \E text \in ConcurrentQueries : TypeText(text)
    \/ DismissPopup
    \/ SearchProducts(MaxConcurrentSearches)
    \/ \E t \in Threads : AmazonRequest(t)
    \/ \E t \in Threads : ConcurrentRespond(t)
    \/ \E t \in Threads : AmazonReturn(t)
    \/ \E t \in Threads : EbayReturn(t)
    \/ \E fault \in DbFaults : ClockTick(fault)

SpecConcurrent == Init /\ [][NextConcurrent]_vars

\* ---------------------------------------------------------- claim vocabulary
\* The products of the cards shown in results_layout, in order.
Cards(layout) == SelectSeq(layout, LAMBDA w : w.kind = "ProductCard")
Shown(layout) == [i \in 1..Len(Cards(layout)) |-> Cards(layout)[i].product[1]]

\* The best-deal headers and the error labels shown in results_layout.
Headers(layout) == SelectSeq(layout, LAMBDA w : w.text = "Best Deal")
ErrorLabels(layout) ==
    SelectSeq(layout, LAMBDA w : w.text = "Search failed. Please try again.")

Count(seq, x) == Cardinality({i \in DOMAIN seq : seq[i] = x})

\* This step is the clock running _update_results(products, product_name).
UpdateStep ==
    /\ clock # <<>>
    /\ clock' = Tail(clock)
    /\ Head(clock).fn = "_update_results"

\* The rows this step appended to the tables.
NewRecords == SubSeq(db'.products, Len(db.products) + 1, Len(db'.products))
NewSnapshots ==
    SubSeq(db'.price_history, Len(db.price_history) + 1, Len(db'.price_history))

\* C1: the ranked list _update_results displays holds exactly the products of
\* its argument whose price is > 0, each as often as it was handed in, and no
\* others, and every adjacent pair of it is in non-decreasing price order.
C1_RankedListIsValidAndSorted ==
    [][UpdateStep =>
        LET products == Head(clock).products
            ranked   == Shown(results_layout')
        IN  /\ \A p \in Range(products) \cup Range(ranked) :
                 Count(ranked, p) = IF p.price > 0 THEN Count(products, p) ELSE 0
            /\ \A i \in 1..(Len(ranked) - 1) : ranked[i].price <= ranked[i + 1].price
      ]_vars

\* C1 witness: a displayed ranking of two products whose order differs from
\* the order in which they were fetched and stored.
C1_Witness ==
    /\ Len(Shown(results_layout)) = 2
    /\ Len(db.price_history) = 2
    /\ Shown(results_layout)[1].price < Shown(results_layout)[2].price
    /\ db.price_history[1].price > db.price_history[2].price

\* C2: the best deal announced is the first element of the ranked list, has a
\* price > 0 that no priced product of the search undercuts; it is absent
\* exactly when no product of the search has a price > 0, and then (as always)
\* no error is shown.
C2_BestDealIsCheapestPriced ==
    [][UpdateStep =>
        LET products == Head(clock).products
            priced   == SelectSeq(products, LAMBDA p : p.price > 0)
            ranked   == Shown(results_layout')
            headers  == Headers(results_layout')
        IN  /\ ErrorLabels(results_layout') = <<>>
            /\ popup' = popup
            /\ IF priced # <<>>
               THEN /\ Len(headers) = 1
                    /\ results_layout'[1] = headers[1]
                    /\ headers[1].store = ranked[1].store
                    /\ headers[1].price = ranked[1].price
                    /\ headers[1].price > 0
                    /\ \A i \in DOMAIN priced : headers[1].price <= priced[i].price
               ELSE headers = <<>>
      ]_vars

\* C2 witness: a best deal is announced that is strictly cheaper than another
\* displayed product.
C2_Witness ==
    /\ Len(Headers(results_layout)) = 1
    /\ \E i \in DOMAIN Shown(results_layout) :
          Headers(results_layout)[1].price < Shown(results_layout)[i].price

\* The snapshot rows save_price_data is to write for products under record id.
SnapshotsMatch(rows, products, id) ==
    /\ Len(rows) = Len(products)
    /\ \A i \in DOMAIN rows :
          /\ rows[i].product_id = id
          /\ rows[i].store = products[i].store
          /\ rows[i].price = products[i].price
          /\ rows[i].url = products[i].url
          /\ rows[i].availability = products[i].availability
          /\ rows[i].rating = products[i].rating

\* C3: the snapshots a completed search persists are the unfiltered list handed
\* to _update_results, one row per product in order, zero-priced products
\* included, all under the record created for the search; earlier rows are
\* left as they were.  Only a storage write that raised (and was logged) leaves
\* the search without its snapshots.
C3_SnapshotsAreUnfilteredList ==
    [][UpdateStep =>
        LET products == Head(clock).products
        IN  /\ SubSeq(db'.price_history, 1, Len(db.price_history)) = db.price_history
            /\ \/ /\ products = <<>>
                  /\ NewSnapshots = <<>>
               \/ /\ products # <<>>
                  /\ Len(NewRecords) = 1
                  /\ SnapshotsMatch(NewSnapshots, products, NewRecords[1].id)
               \/ /\ products # <<>>
                  /\ NewSnapshots = <<>>
                  /\ "Database error" \in log'
      ]_vars

\* C3 witness: one product at price 0 and one at 9.99 were returned; the
\* ranking shows only the 9.99 one and both are in price_history.
C3_Witness ==
    /\ Len(Shown(results_layout)) = 1
    /\ Shown(results_layout)[1].price = 999
    /\ Len(db.price_history) = 2
    /\ {db.price_history[i].price : i \in 1..2} = {0, 999}

\* C4 (as claimed): every completed search creates exactly one row in products
\* and one price_history row per product under it, whatever the adapters
\* returned, unless a storage write raised.
C4_OneRecordPerSearch ==
    [][(UpdateStep /\ "Database error" \notin log') =>
        /\ Len(NewRecords) = 1
        /\ NewRecords[1].search_query = Head(clock).product_name
        /\ SnapshotsMatch(NewSnapshots, Head(clock).products, NewRecords[1].id)
      ]_vars

\* A response from which a scraper gets nothing: the request raised, the
\* status is not 200, or the body holds no result container.
FailedResponse(r) ==
    \/ r.exception # "none"
    \/ r.status_code # 200
    \/ r.containers = <<>>

\* The containers of a page scrape_ebay turns into products.
EbayParseable(containers) ==
    SelectSeq(SubSeq(containers, 1, Min(ContainerLimit, Len(containers))),
              LAMBDA c : c.name_elem # None /\ c.price_elem # None)

\* Thread t leaves the exchange it was blocked in (its scraper returns).
ScraperReturns(t) ==
    /\ net[t] # None
    /\ net[t][1].response # None
    /\ net'[t] # net[t]

\* C5: a scraper never raises to _search_thread: whatever the response (a
\* connection error, a timeout, a status other than 200, a page without result
\* containers), no error callback is ever scheduled; scrape_amazon on a failed
\* response returns the empty list and the thread goes on to eBay's request;
\* scrape_ebay on a failed response adds nothing to Amazon's products; and
\* after an empty Amazon result the products delivered are eBay's.
C5_ScrapersNeverRaise ==
    [][\A t \in Threads : ScraperReturns(t) =>
        LET exchange == net[t][1]
            response == exchange.response[1]
        IN  /\ \A i \in DOMAIN clock' : clock'[i].fn # "_show_error"
            /\ exchange.store = "Amazon" =>
                 /\ pc'[t] = "ebay"
                 /\ net'[t] = Some(Exchange("eBay", product_name[t], None))
                 /\ clock' = clock
                 /\ FailedResponse(response) => all_products'[t] = <<>>
            /\ exchange.store = "eBay" =>
                 /\ Len(clock') = Len(clock) + 1
                 /\ LET delivered == clock'[Len(clock')].products
                    IN  /\ clock'[Len(clock')].fn = "_update_results"
                        /\ FailedResponse(response) => delivered = all_products[t]
                        /\ all_products[t] = <<>> =>
                             /\ Len(delivered) = Len(EbayParseable(response.containers))
                             /\ \A i \in DOMAIN delivered : delivered[i].store = "eBay"
      ]_vars

\* C5 witness: Amazon's request failed with an exception that was caught and
\* logged, and the search went on to display a product of eBay.
C5_Witness ==
    /\ "Error scraping Amazon" \in log
    /\ \E i \in DOMAIN Shown(results_layout) : Shown(results_layout)[i].store = "eBay"

\* C6 (as claimed): a slow first adapter does not delay the second: while
\* Amazon's request of a search is still unanswered, eBay's request of the same
\* search is in flight or can be sent by the next step.
C6_SecondFetchNotDelayed ==
    \A t \in Threads :
        (pc[t] = "amazon" /\ net[t] # None /\ net[t][1].response = None) =>
            ENABLED (Next /\ net'[t] # None /\ net'[t][1].store = "eBay")

\* C7: the UI update of a search is scheduled only by the step in which its
\* last scraper (eBay's, which starts after Amazon's has returned) returns, so
\* never while a request of that search is unanswered; a thread runs its
\* scrapers in order to the end; and a request in flight is never dropped: it
\* stays in flight until it is answered.
C7_DeliveredAfterAllAdapters ==
    [][/\ Len(clock') > Len(clock) =>
            \E t \in Threads :
                /\ pc[t] = "ebay"
                /\ net[t] # None
                /\ net[t][1].store = "eBay"
                /\ net[t][1].response # None
                /\ pc'[t] = "finished"
                /\ net'[t] = None
                /\ clock' = Append(clock, clock'[Len(clock')])
                /\ clock'[Len(clock')].product_name = product_name[t]
       /\ \A t \in Threads :
            /\ pc[t] = "started" => pc'[t] \in {"started", "amazon"}
            /\ pc[t] = "amazon" => pc'[t] \in {"amazon", "ebay"}
            /\ pc[t] = "ebay" => pc'[t] \in {"ebay", "finished"}
            /\ (net[t] # None /\ net[t][1].response = None) =>
                 \/ net'[t] = net[t]
                 \/ /\ net'[t] # None
                    /\ net'[t][1].response # None
                    /\ net'[t][1].store = net[t][1].store
                    /\ net'[t][1].query = net[t][1].query
      ]_vars

\* C7 witness: an update carrying products of both stores is scheduled and its
\* thread has ended with no request outstanding.
C7_Witness ==
    /\ clock # <<>>
    /\ \E i, j \in DOMAIN clock[1].products :
          /\ clock[1].products[i].store = "Amazon"
          /\ clock[1].products[j].store = "eBay"
    /\ \A t \in Threads : pc[t] \in {"unborn", "finished"} /\ net[t] = None

\* C8: a press of Search opens the input-error popup only when the text is
\* empty or all whitespace, and that step changes nothing else: no thread is
\* started, no request is sent, nothing is scheduled or persisted, and
\* results_layout and the progress bar stay as they were; a background thread
\* is started only for a text that is not blank.
C8_BlankQueryRejected ==
    [][/\ (popup = None /\ popup' # None) =>
            /\ Strip(search_input) = <<>>
            /\ popup' = ErrorPopup
            /\ UNCHANGED <<search_input, results_layout, progress_opacity, pc,
                           product_name, all_products, net, clock, db, served, now,
                   history_layout>>
       /\ \A t \in Threads : (pc[t] = "unborn" /\ pc'[t] # "unborn") =>
            /\ Strip(search_input) # <<>>
            /\ product_name'[t] = Strip(search_input)
            /\ popup' = None
      ]_vars

\* C8 witness: the popup is open over the results of an earlier search, which
\* are still displayed, and the text is blank.
C8_Witness ==
    /\ popup = ErrorPopup
    /\ Strip(search_input) = <<>>
    /\ Shown(results_layout) # <<>>
    /\ db.price_history # <<>>

\* C9: when the persistence of a search fails (no snapshot is written for a
\* non-empty product list), the failure is logged as a database error, no
\* error label or popup is shown, and the display is the ranking of the
\* search: the priced products in price order under their best-deal header.
C9_PersistenceFailureIsolated ==
    [][(UpdateStep /\ Head(clock).products # <<>> /\ NewSnapshots = <<>>) =>
        LET products == Head(clock).products
            priced   == SelectSeq(products, LAMBDA p : p.price > 0)
            ranked   == Shown(results_layout')
        IN  /\ "Database error" \in log'
            /\ ErrorLabels(results_layout') = <<>>
            /\ popup' = popup
            /\ progress_opacity' = 0
            /\ Len(ranked) = Len(priced)
            /\ \A p \in Range(priced) : Count(ranked, p) = Count(priced, p)
            /\ \A i \in 1..(Len(ranked) - 1) : ranked[i].price <= ranked[i + 1].price
            /\ Len(Headers(results_layout')) = IF priced # <<>> THEN 1 ELSE 0
            /\ Len(results_layout') = Len(ranked) + Len(Headers(results_layout'))
      ]_vars

\* C9 witness: a database error was logged, nothing reached price_history, and
\* the ranked products of the search are displayed.
C9_Witness ==
    /\ "Database error" \in log
    /\ db.price_history = <<>>
    /\ Len(Shown(results_layout)) = 2
    /\ Len(Headers(results_layout)) = 1

\* The stable ranking of a list: for each price in ascending order, the
\* products at that price in the order the list has them.
RECURSIVE GroupsByPrice(_, _)
GroupsByPrice(products, prices) ==
    IF prices = {} THEN <<>>
    ELSE LET lowest == CHOOSE v \in prices : \A w \in prices : v <= w
         IN  SelectSeq(products, LAMBDA p : p.price = lowest)
             \o GroupsByPrice(products, prices \ {lowest})

StableRanking(products) ==
    GroupsByPrice(products, {products[i].price : i \in DOMAIN products})

\* The containers of a page scrape_amazon turns into products.
AmazonParseable(containers) ==
    SelectSeq(SubSeq(containers, 1, Min(ContainerLimit, Len(containers))),
              LAMBDA c : c.name_elem # None /\ c.price_elem # None
                         /\ c.link_elem # None)

NamesOf(seq) == [i \in DOMAIN seq |-> seq[i].name]
ContainerNames(containers) ==
    [i \in DOMAIN containers |-> Strip(containers[i].name_elem[1])]

\* C10: the ranking is a function of the lists the adapters returned and is
\* stable: the display is the priced products taken price by price in
\* ascending order, equal prices in the order of the concatenated list; that
\* list holds Amazon's products before eBay's, each adapter's in the order of
\* the containers of its page.
C10_RankingStable ==
    [][/\ UpdateStep =>
            LET products == Head(clock).products
            IN  /\ Shown(results_layout') =
                     StableRanking(SelectSeq(products, LAMBDA p : p.price > 0))
                /\ \A i, j \in DOMAIN products :
                     (products[i].store = "Amazon" /\ products[j].store = "eBay")
                        => i < j
       /\ \A t \in Threads :
            (ScraperReturns(t) /\ ~FailedResponse(net[t][1].response[1])) =>
                LET containers == net[t][1].response[1].containers
                IN  IF net[t][1].store = "Amazon"
                    THEN NamesOf(all_products'[t]) =
                            ContainerNames(AmazonParseable(containers))
                    ELSE NamesOf(clock'[Len(clock')].products) =
                            NamesOf(all_products[t])
                            \o ContainerNames(EbayParseable(containers))
      ]_vars

\* C10 witness: two products of equal price are displayed one after the other.
C10_Witness ==
    /\ Len(Shown(results_layout)) = 2
    /\ Shown(results_layout)[1].price = Shown(results_layout)[2].price
    /\ Shown(results_layout)[1] # Shown(results_layout)[2]

\* A visit of the history screen that read the database.
HistoryLoaded ==
    /\ history_layout' # history_layout
    /\ history_layout' # <<HistoryLabel("Error loading history")>>

\* The snapshots of the database from the one created last to the one created
\* first, cut after limit rows.
MostRecentFirst(database, limit) ==
    LET n == Len(database.price_history)
    IN  [k \in 1..Min(limit, n) |-> Selected(database, n + 1 - k)]

\* C11: whenever the history screen has read a database that holds snapshots,
\* the rows it shows are the most recently created snapshots, at most the
\* limit of them, the one created last first.
C11_HistoryIsMostRecentFirst ==
    [][(HistoryLoaded /\ db.price_history # <<>>) =>
          history_layout' =
              [k \in 1..Min(HistoryLimit, Len(db.price_history)) |->
                  HistoryItem(MostRecentFirst(db, HistoryLimit)[k])]]_vars

\* The products the scraper of thread t hands back in the step it returns.
Returned(t) ==
    IF net[t][1].store = "Amazon"
    THEN all_products'[t]
    ELSE LET delivered == clock'[Len(clock')].products
         IN  SubSeq(delivered, Len(all_products[t]) + 1, Len(delivered))

\* The titles of the containers of a page at the positions in S.
TitlesAt(containers, S) ==
    { containers[k].name_elem[1] :
        k \in { j \in S \cap DOMAIN containers : containers[j].name_elem # None } }

\* C12: whatever the page, a scraper returns at most 3 products, each built
\* from one of the first 3 containers of the page and none from a later one,
\* also when containers among the first 3 were skipped; the list delivered for
\* a search holds at most 3 products of each store.
C12_FirstThreeContainersOnly ==
    [][\A t \in Threads : ScraperReturns(t) =>
        LET containers == net[t][1].response[1].containers
            returned   == Returned(t)
        IN  /\ Len(returned) <= 3
            /\ \A i \in DOMAIN returned :
                 /\ returned[i].name \in TitlesAt(containers, 1..3)
                 /\ returned[i].name \notin
                        TitlesAt(containers, 4..Len(containers))
            /\ net[t][1].store = "eBay" =>
                 \A store \in {"Amazon", "eBay"} :
                    Len(SelectSeq(clock'[Len(clock')].products,
                                  LAMBDA p : p.store = store)) <= 3
      ]_vars

\* C12 witness: Amazon's page held more than 3 containers, the first of them
\* was skipped, and scrape_amazon returned the products of the second and the
\* third only.
C12_Witness ==
    \E t \in Threads :
        /\ pc[t] = "ebay"
        /\ net[t] # None
        /\ net[t][1].response = None
        /\ served > 3
        /\ NamesOf(all_products[t]) = << <<"2">>, <<"3">> >>

\* The containers among the first 3 of a page that have both a title element
\* and a price element.
WithNameAndPrice(containers) ==
    SelectSeq(SubSeq(containers, 1, Min(3, Len(containers))),
              LAMBDA c : c.name_elem # None /\ c.price_elem # None)

\* C13 (as claimed): of the containers a scraper examines, exactly those with
\* a title element and a price element yield a product, in page order, whether
\* or not they hold a link, an image or a rating; the product of a container
\* without link has the empty url.
C13_ProductIffNameAndPrice ==
    [][\A t \in Threads : ScraperReturns(t) =>
        LET complete == WithNameAndPrice(net[t][1].response[1].containers)
            returned == Returned(t)
        IN  /\ Len(returned) = Len(complete)
            /\ \A i \in DOMAIN complete :
                 /\ returned[i].name = Strip(complete[i].name_elem[1])
                 /\ complete[i].link_elem = None => returned[i].url = <<>>
      ]_vars

\* A url that names its origin; <<path>> alone is a relative one.
IsAbsolute(url) == url # <<>> /\ url[1] \in {AmazonBase, EbayOrigin}

\* C14 (as claimed): every product a scraper returns carries a url that is
\* empty or absolute, never a relative one.
C14_UrlAbsoluteOrEmpty ==
    [][\A t \in Threads : ScraperReturns(t) =>
        \A i \in DOMAIN Returned(t) :
            \/ Returned(t)[i].url = <<>>
            \/ IsAbsolute(Returned(t)[i].url)
      ]_vars

\* The query a snapshot was scraped for, read off the link of its listing.
QueryOf(snapshot) == snapshot.url[Len(snapshot.url)]

\* C15: however the searches interleave, every snapshot in the database
\* references a record that exists, that record carries the query the
\* snapshot was scraped for (as its name and as its search_query), and the
\* snapshots of one record lie together, none of another search among them.
C15_SnapshotsBelongToTheirSearch ==
    /\ \A i \in DOMAIN db.price_history :
          \E j \in DOMAIN db.products :
              /\ db.products[j].id = db.price_history[i].product_id
              /\ db.products[j].search_query = QueryOf(db.price_history[i])
              /\ db.products[j].name = QueryOf(db.price_history[i])
    /\ \A j, k \in DOMAIN db.products : j # k => db.products[j].id # db.products[k].id
    /\ \A i, k, l \in DOMAIN db.price_history :
          (i < k /\ k < l /\ db.price_history[i].product_id
                                = db.price_history[l].product_id)
              => db.price_history[k].product_id = db.price_history[i].product_id

\* C15 witness: the search for "b", started while the search for "a" was
\* running, has been persisted with its snapshots of both stores, and the
\* search for "a" is still waiting for eBay with Amazon's product in hand.
C15_Witness ==
    /\ pc[1] = "ebay"
    /\ product_name[1] = <<"a">>
    /\ all_products[1] # <<>>
    /\ pc[2] = "finished"
    /\ clock = <<>>
    /\ Len(db.products) = 1
    /\ db.products[1].search_query = <<"b">>
    /\ Len(db.price_history) = 2

====
